---- MODULE Spec2Model ----
(***************************************************************************)
(* Model of the ticks crate: the OAuth2 authorization-code flow            *)
(* (Authorization::begin_auth, AwaitingAuthCode::finish_auth), the         *)
(* TickTick client facade and the Task / Project builders, each request    *)
(* the library sends and each response the remote service may give.        *)
(*                                                                         *)
(* A library call is a sequence of steps split at its await points: the    *)
(* step that sends a request, and the step that receives the response and  *)
(* runs the code up to the next request or to the return.                  *)
(***************************************************************************)
EXTENDS Naturals, Sequences, FiniteSets, TLC

VARIABLES
    awaiting,   \* the AwaitingAuthCode objects the caller holds (a sequence)
    ticktick,   \* the TickTick facade the caller holds, or None
    builder,    \* the TaskBuilder or ProjectBuilder the caller holds, or None
    pc,         \* "idle", or the await point the running call is stopped at
    frame,      \* the locals of the running call (kept after it returns)
    sent,       \* the HTTP requests the call has sent, in order
    resp,       \* the HTTP response the call received last; None before any
    result,     \* what the last call returned; None while a call runs
    hist        \* history of the running fan-out call: what the service served

vars == <<awaiting, ticktick, builder, pc, frame, sent, resp, result, hist>>

None == [kind |-> "None"]

\* History kept for the fan-out call: whether every response so far was a
\* 2xx response of the expected schema, the project array and the task
\* arrays the service served, in the order it served them.
NoHistory == [allOk |-> TRUE, listed |-> <<>>, served |-> <<>>]

-----------------------------------------------------------------------------
(* Bounds of the model.                                                    *)

MaxAwaiting == 2    \* AwaitingAuthCode objects held at once
MaxProjects == 2    \* projects in a project-list response
MaxTasks == 2       \* tasks in a project-data response
MaxSetFields == 2   \* fields of the payload up to which a setter is called

-----------------------------------------------------------------------------
(* The remote service: every response it may give.                         *)

\* The statuses the service answers with: success, a client error, a server
\* error.
Statuses == {200, 404, 500}
IsSuccess(status) == status >= 200 /\ status < 300
\* reqwest's Response::error_for_status: an error for 4xx and 5xx only.
error_for_status(status) == status >= 400 /\ status < 600

BadBody == [kind |-> "bad"]
ObjBody(o) == [kind |-> "obj", obj |-> o]
ArrBody(a) == [kind |-> "arr", arr |-> a]

NetFailure == [net |-> FALSE]
Responses(bodies) ==
    {NetFailure} \cup
    {[net |-> TRUE, status |-> s, body |-> b] : s \in Statuses, b \in bodies}

-----------------------------------------------------------------------------
(* Authorization flow.                                                     *)

ClientIds == {"id123"}
ClientSecrets == {"secret"}
RedirectUris == {"http://localhost:8080", "localhost"}
AuthCodes == {"code1"}
CsrfTokens == {"s1", "s2", "s3"}
ReturnedStates == CsrfTokens \cup {""}
TokenValues == {"tok1", "tok2"}

AuthUrl == "https://ticktick.com/oauth/authorize"
TokenUrl == "https://ticktick.com/oauth/token"

\* Url::parse, as RedirectUrl::new uses it: a relative reference has no base.
UrlParses(u) == u \notin {"localhost", ""}

\* AuthorizationRequest::url of the oauth2 client, as begin_auth calls it:
\* the authorize endpoint with the query the request was given.
authorize_url(client_id, redirect_uri, scopes, csrf) ==
    [endpoint |-> AuthUrl,
     query |-> [response_type |-> "code",
                client_id |-> client_id,
                state |-> csrf,
                redirect_uri |-> redirect_uri,
                scope |-> scopes]]

BeginAuthStoresOtherToken(client_id, redirect_uri, csrf) ==
    [authorization_url |->
         authorize_url(client_id, redirect_uri, <<"tasks:read", "tasks:write">>, csrf),
     csrf_state |-> CHOOSE t \in CsrfTokens : t # csrf,
     auth_client |-> [client_id |-> client_id, redirect_url |-> redirect_uri]]

\* The AwaitingAuthCode begin_auth returns for the token CsrfToken::new_random drew.
NewAwaitingAuthCode(client_id, redirect_uri, csrf) ==
    [authorization_url |->
         authorize_url(client_id, redirect_uri, <<"tasks:read", "tasks:write">>, csrf),
     csrf_state |-> csrf,
     auth_client |-> [client_id |-> client_id, redirect_url |-> redirect_uri]]

begin_auth(client_id, redirect_uri) ==
    /\ pc = "idle"
    /\ Len(awaiting) < MaxAwaiting
    /\ frame' = [op |-> "begin_auth", client_id |-> client_id,
                 redirect_uri |-> redirect_uri]
    /\ sent' = <<>>
    /\ resp' = None
    /\ IF UrlParses(redirect_uri)
       THEN \E csrf \in CsrfTokens :
              LET a == NewAwaitingAuthCode(client_id, redirect_uri, csrf) IN
                /\ awaiting' = Append(awaiting, a)
                /\ result' = [kind |-> "Ok", value |-> a]
       ELSE /\ awaiting' = awaiting
            /\ result' = [kind |-> "panic"]
    /\ UNCHANGED <<ticktick, builder, pc, hist>>

TokenFormWithoutCode(self, client_secret, auth_code) ==
    [client_id |-> self.auth_client.client_id,
     client_secret |-> client_secret,
     grant_type |-> "authorization_code",
     scope |-> "tasks:write tasks:read",
     redirect_uri |-> self.auth_client.redirect_url]

\* The form finish_auth builds before it compares the state.
token_request_form(self, client_secret, auth_code) ==
    [client_id |-> self.auth_client.client_id,
     client_secret |-> client_secret,
     code |-> auth_code,
     grant_type |-> "authorization_code",
     scope |-> "tasks:write tasks:read",
     redirect_uri |-> self.auth_client.redirect_url]

CsrfAlwaysMatches(state, csrf_state) == TRUE
\* `&state != self.csrf_state.secret()`: exact string comparison.
CsrfMatches(state, csrf_state) == state = csrf_state

FinishAuthKeepsObject(s, i) == s
\* `finish_auth(self, ...)` takes the object by value: the caller has it no more.
RemoveAt(s, i) == SubSeq(s, 1, i - 1) \o SubSeq(s, i + 1, Len(s))

\* finish_auth up to its only await: the CSRF comparison, then the POST.
finish_auth(i, client_secret, auth_code, state) ==
    /\ pc = "idle"
    /\ i \in 1..Len(awaiting)
    /\ LET self == awaiting[i]
           form == token_request_form(self, client_secret, auth_code)
       IN /\ awaiting' = RemoveAt(awaiting, i)
          /\ frame' = [op |-> "finish_auth", self |-> self, state |-> state,
                       client_secret |-> client_secret, auth_code |-> auth_code]
          /\ resp' = None
          /\ IF ~CsrfMatches(state, self.csrf_state)
             THEN /\ result' = [kind |-> "InvalidCSRFState",
                                expected |-> self.csrf_state,
                                recieved |-> state]
                  /\ sent' = <<>>
                  /\ pc' = "idle"
             ELSE /\ result' = None
                  /\ sent' = <<[method |-> "POST", url |-> TokenUrl,
                                client |-> "default", form |-> form]>>
                  /\ pc' = "finish_auth_await"
    /\ UNCHANGED <<ticktick, builder, hist>>

\* serde's derive for AccessToken: all four fields are required.
AccessTokenFields == {"access_token", "token_type", "expires_in", "scope"}
TokenBodies ==
    {BadBody, ObjBody([error |-> "invalid_grant"])} \cup
    {ObjBody([access_token |-> v, token_type |-> "bearer",
              expires_in |-> 3600, scope |-> "tasks:write tasks:read"]) :
        v \in TokenValues}

DecodesAsAccessToken(body) ==
    body.kind = "obj" /\ AccessTokenFields \subseteq DOMAIN body.obj

AccessTokenOf(body) ==
    [value |-> body.obj.access_token, token_type |-> body.obj.token_type,
     expires_in |-> body.obj.expires_in, scope |-> body.obj.scope]

\* finish_auth after the await: `token_request_result?.json::<AccessToken>().await?`.
finish_auth_resume(r) ==
    /\ pc = "finish_auth_await"
    /\ resp' = r
    /\ pc' = "idle"
    /\ result' = IF ~r.net THEN [kind |-> "ReqwestClientError", cause |-> "send"]
                 ELSE IF DecodesAsAccessToken(r.body)
                      THEN [kind |-> "Ok", value |-> AccessTokenOf(r.body)]
                      ELSE [kind |-> "ReqwestClientError", cause |-> "decode"]
    /\ UNCHANGED <<awaiting, ticktick, builder, frame, sent, hist>>

InitAuth ==
    /\ awaiting = <<>>
    /\ ticktick = None
    /\ builder = None
    /\ pc = "idle"
    /\ frame = [op |-> "none"]
    /\ sent = <<>>
    /\ resp = None
    /\ result = None
    /\ hist = NoHistory

NextAuth ==
    \/ \E c \in ClientIds, r \in RedirectUris : begin_auth(c, r)
    \/ \E i \in 1..MaxAwaiting, s \in ClientSecrets, c \in AuthCodes,
          st \in ReturnedStates : finish_auth(i, s, c, st)
    \/ \E r \in Responses(TokenBodies) : finish_auth_resume(r)

SpecAuth == InitAuth /\ [][NextAuth]_vars

-----------------------------------------------------------------------------
(* Resource models and their JSON forms.                                   *)

\* A JSON object is a function from the field names it has to their values.
Get(o, k, default) == IF k \in DOMAIN o THEN o[k] ELSE default

SeqsUpTo(S, n) == UNION {[1..k -> S] : k \in 0..n}

\* reqwest::Client::default(): no default headers.
DefaultClient == [authorization |-> ""]

\* TaskPriority and TaskStatus (serde_repr over u8): the numeric code of each
\* variant; a code no variant has fails deserialization.
TaskPriorityVariants == {"None", "Low", "Medium", "High"}
TaskPriorityCode(v) ==
    CASE v = "None" -> 0 [] v = "Low" -> 1 [] v = "Medium" -> 3 [] v = "High" -> 5
TaskPriorityKnown(c) == \E v \in TaskPriorityVariants : TaskPriorityCode(v) = c
TaskPriorityFrom(c) == CHOOSE v \in TaskPriorityVariants : TaskPriorityCode(v) = c

TaskStatusVariants == {"Normal", "Completed"}
TaskStatusCode(v) == CASE v = "Normal" -> 0 [] v = "Completed" -> 2
TaskStatusKnown(c) == \E v \in TaskStatusVariants : TaskStatusCode(v) = c
TaskStatusFrom(c) == CHOOSE v \in TaskStatusVariants : TaskStatusCode(v) = c

\* SubtaskStatus (serde_repr over u8 as well).
SubtaskStatusVariants == {"Normal", "Completed"}
SubtaskStatusCode(v) == CASE v = "Normal" -> 0 [] v = "Completed" -> 1
SubtaskStatusKnown(c) == \E v \in SubtaskStatusVariants : SubtaskStatusCode(v) = c
SubtaskStatusFrom(c) == CHOOSE v \in SubtaskStatusVariants : SubtaskStatusCode(v) = c

ViewModeFromIgnoringCase(value) ==
    CASE value \in {"list", "List", "LIST"} -> "List"
      [] value \in {"kanban", "Kanban", "KANBAN"} -> "Kanban"
      [] value \in {"timeline", "Timeline", "TIMELINE"} -> "Timeline"
      [] OTHER -> "List"

\* From<String> for the string-backed enums of Project.
ProjectViewModeFrom(value) ==
    CASE value = "list" -> "List"
      [] value = "kanban" -> "Kanban"
      [] value = "timeline" -> "Timeline"
      [] OTHER -> "List"
ProjectUserPermissionsFrom(value) ==
    CASE value = "read" -> "Read"
      [] value = "write" -> "Write"
      [] value = "comment" -> "Comment"
      [] OTHER -> "Read"
ProjectKindFrom(value) ==
    CASE value = "TASK" -> "Task"
      [] value = "NOTE" -> "Note"
      [] OTHER -> "Task"

\* Serialize for the string-backed enums: the variant's name, renamed by
\* rename_all = "lowercase" (view mode, permission) or "UPPERCASE" (kind).
ProjectViewModeVariants == {"List", "Kanban", "Timeline"}
ProjectViewModeName(v) ==
    CASE v = "List" -> "list" [] v = "Kanban" -> "kanban" [] v = "Timeline" -> "timeline"
ProjectUserPermissionsVariants == {"Read", "Write", "Comment"}
ProjectUserPermissionsName(v) ==
    CASE v = "Read" -> "read" [] v = "Write" -> "write" [] v = "Comment" -> "comment"
ProjectKindVariants == {"Task", "Note"}
KindNameInLowercase(v) == CASE v = "Task" -> "task" [] v = "Note" -> "note"
ProjectKindName(v) == CASE v = "Task" -> "TASK" [] v = "Note" -> "NOTE"

\* A DateTime<Utc> without sub-second part: the calendar fields of its date
\* and of its time of day.
IsLeapYear(y) == (y % 4 = 0 /\ y % 100 # 0) \/ y % 400 = 0
DaysInMonth(y, m) ==
    IF m = 2 THEN (IF IsLeapYear(y) THEN 29 ELSE 28)
    ELSE IF m \in {4, 6, 9, 11} THEN 30 ELSE 31
IsDateTime(d) ==
    /\ d.year \in 0..9999
    /\ d.month \in 1..12
    /\ d.day \in 1..DaysInMonth(d.year, d.month)
    /\ d.hour \in 0..23
    /\ d.minute \in 0..59
    /\ d.second \in 0..59

\* DateTime::<Utc>::default(): the epoch.
DefaultDateTime ==
    [year |-> 1970, month |-> 1, day |-> 1, hour |-> 0, minute |-> 0, second |-> 0]

Digits == "0123456789"
Digit(d) == SubSeq(Digits, d + 1, d + 1)
Pad2(n) == Digit(n \div 10) \o Digit(n % 10)
Pad4(n) == Pad2(n \div 100) \o Pad2(n % 100)

FormatWithoutOffset(date) ==
    Pad4(date.year) \o "-" \o Pad2(date.month) \o "-" \o Pad2(date.day) \o "T"
        \o Pad2(date.hour) \o ":" \o Pad2(date.minute) \o ":" \o Pad2(date.second)

\* ticktick_datetime_format::serialize and optional_datetime::serialize:
\* `date.format("%Y-%m-%dT%T%z")`; %T is %H:%M:%S, and in Utc %z prints +0000.
FormatDatetime(date) ==
    Pad4(date.year) \o "-" \o Pad2(date.month) \o "-" \o Pad2(date.day) \o "T"
        \o Pad2(date.hour) \o ":" \o Pad2(date.minute) \o ":" \o Pad2(date.second)
        \o "+0000"

\* NaiveDateTime::parse_from_str(&s, "%Y-%m-%dT%T%z"): a scan of s from the
\* left.  A numeric item takes the digits present up to its width, at least
\* one; a literal must be there; %z takes a sign, two digits, an optional
\* colon and two digits, and its value is dropped; nothing may follow.
CharAt(s, i) == IF i >= 1 /\ i <= Len(s) THEN SubSeq(s, i, i) ELSE ""
IsDigit(c) == \E d \in 0..9 : Digit(d) = c
DigitValue(c) == CHOOSE d \in 0..9 : Digit(d) = c
AllDigits(s, i, k) == \A j \in 0..(k - 1) : IsDigit(CharAt(s, i + j))
NumberAt(s, i, k) ==
    LET F[j \in 0..k] ==
            IF j = 0 THEN 0 ELSE F[j - 1] * 10 + DigitValue(CharAt(s, i + j - 1))
    IN F[k]

\* The digits each numeric item may take: %Y up to four, the others up to
\* two.  As every item is followed by a character that is no digit, at most
\* one choice of lengths fits a string: the one the scan makes.
ItemLengths ==
    [year : 1..4, month : 1..2, day : 1..2, hour : 1..2, minute : 1..2,
     second : 1..2]
\* Where each item starts, for the lengths n.
MonthAt(n) == 1 + n.year + 1
DayAt(n) == MonthAt(n) + n.month + 1
HourAt(n) == DayAt(n) + n.day + 1
MinuteAt(n) == HourAt(n) + n.hour + 1
SecondAt(n) == MinuteAt(n) + n.minute + 1
OffsetAt(n) == SecondAt(n) + n.second

\* %z at position i, up to the end of s.
OffsetFits(s, i) ==
    /\ CharAt(s, i) \in {"+", "-"}
    /\ AllDigits(s, i + 1, 2)
    /\ \/ /\ Len(s) = i + 4
          /\ AllDigits(s, i + 3, 2)
          /\ NumberAt(s, i + 3, 2) < 60
       \/ /\ Len(s) = i + 5
          /\ CharAt(s, i + 3) = ":"
          /\ AllDigits(s, i + 4, 2)
          /\ NumberAt(s, i + 4, 2) < 60

Fits(s, n) ==
    /\ AllDigits(s, 1, n.year) /\ CharAt(s, MonthAt(n) - 1) = "-"
    /\ AllDigits(s, MonthAt(n), n.month) /\ CharAt(s, DayAt(n) - 1) = "-"
    /\ AllDigits(s, DayAt(n), n.day) /\ CharAt(s, HourAt(n) - 1) = "T"
    /\ AllDigits(s, HourAt(n), n.hour) /\ CharAt(s, MinuteAt(n) - 1) = ":"
    /\ AllDigits(s, MinuteAt(n), n.minute) /\ CharAt(s, SecondAt(n) - 1) = ":"
    /\ AllDigits(s, SecondAt(n), n.second)
    /\ OffsetFits(s, OffsetAt(n))

Scanned(s, n) ==
    [year |-> NumberAt(s, 1, n.year),
     month |-> NumberAt(s, MonthAt(n), n.month),
     day |-> NumberAt(s, DayAt(n), n.day),
     hour |-> NumberAt(s, HourAt(n), n.hour),
     minute |-> NumberAt(s, MinuteAt(n), n.minute),
     second |-> NumberAt(s, SecondAt(n), n.second)]

ParseFailure == [ok |-> FALSE]
ParseDatetime(s) ==
    IF \E n \in ItemLengths : Fits(s, n) /\ IsDateTime(Scanned(s, n))
    THEN [ok |-> TRUE,
          value |-> Scanned(s, CHOOSE n \in ItemLengths : Fits(s, n))]
    ELSE ParseFailure

IdIsNeverEmpty(id) == FALSE
\* is_empty of ProjectID, GroupID, ColumnID, TaskID and SubtaskID:
\* `self.0.is_empty()`, the length of the string being zero.
is_empty(id) == Len(id) = 0
\* Default of the identifier types: the empty string.
DefaultId == ""

\* Deserialize for Subtask and Task: #[serde(default)] on the struct, so
\* every field may be absent and then has its Default; http_client is
\* #[serde(skip)]; a field that is present has to deserialize.
DateFields == {"completedTime", "dueDate", "startDate"}
DecodesAsSubtask(o) ==
    /\ ("status" \in DOMAIN o => SubtaskStatusKnown(o.status))
    /\ \A k \in {"completedTime", "startDate"} \cap DOMAIN o : ParseDatetime(o[k]).ok
DateOf(o, k) == IF k \in DOMAIN o THEN ParseDatetime(o[k]).value ELSE DefaultDateTime
DecodeSubtask(o) ==
    [id |-> Get(o, "id", ""),
     title |-> Get(o, "title", ""),
     status |-> SubtaskStatusFrom(Get(o, "status", 0)),
     completed_time |-> DateOf(o, "completedTime"),
     is_all_day |-> Get(o, "isAllDay", FALSE),
     sort_order |-> Get(o, "sortOrder", 0),
     start_date |-> DateOf(o, "startDate"),
     time_zone |-> Get(o, "timeZone", "")]

DecodesAsTask(o) ==
    /\ ("priority" \in DOMAIN o => TaskPriorityKnown(o.priority))
    /\ ("status" \in DOMAIN o => TaskStatusKnown(o.status))
    /\ \A k \in DateFields \cap DOMAIN o : ParseDatetime(o[k]).ok
    /\ ("items" \in DOMAIN o =>
            \A i \in 1..Len(o.items) : DecodesAsSubtask(o.items[i]))

DecodeTask(o) ==
    [http_client |-> DefaultClient,
     id |-> Get(o, "id", ""),
     project_id |-> Get(o, "projectId", ""),
     title |-> Get(o, "title", ""),
     is_all_day |-> Get(o, "isAllDay", FALSE),
     completed_time |-> DateOf(o, "completedTime"),
     content |-> Get(o, "content", ""),
     desc |-> Get(o, "desc", ""),
     due_date |-> DateOf(o, "dueDate"),
     subtasks |-> LET items == Get(o, "items", <<>>) IN
                  [i \in 1..Len(items) |-> DecodeSubtask(items[i])],
     priority |-> TaskPriorityFrom(Get(o, "priority", 0)),
     reminders |-> Get(o, "reminders", <<>>),
     repeat_flag |-> Get(o, "repeatFlag", ""),
     sort_order |-> Get(o, "sortOrder", 0),
     start_date |-> DateOf(o, "startDate"),
     status |-> TaskStatusFrom(Get(o, "status", 0)),
     time_zone |-> Get(o, "timeZone", ""),
     tags |-> Get(o, "tags", <<>>)]

\* Deserialize for Project: #[serde(default)] on the struct as well.
DecodeProject(o) ==
    [http_client |-> DefaultClient,
     id |-> Get(o, "id", ""),
     name |-> Get(o, "name", ""),
     color |-> Get(o, "color", ""),
     sort_order |-> Get(o, "sortOrder", 0),
     closed |-> Get(o, "closed", FALSE),
     group_id |-> Get(o, "groupId", ""),
     view_mode |-> ProjectViewModeFrom(Get(o, "viewMode", "list")),
     permission |-> ProjectUserPermissionsFrom(Get(o, "permission", "read")),
     kind |-> ProjectKindFrom(Get(o, "kind", "TASK"))]

\* Deserialize for Column and ProjectData: no default, every field required.
ColumnFields == {"id", "projectId", "name", "sortOrder"}
DecodesAsColumn(o) == ColumnFields \subseteq DOMAIN o
DecodeColumn(o) ==
    [id |-> o.id, project_id |-> o.projectId, name |-> o.name,
     sort_order |-> o.sortOrder]

DecodesAsProjectData(o) ==
    /\ {"tasks", "columns"} \subseteq DOMAIN o
    /\ \A i \in 1..Len(o.tasks) : DecodesAsTask(o.tasks[i])
    /\ \A i \in 1..Len(o.columns) : DecodesAsColumn(o.columns[i])
DecodeProjectData(o) ==
    [tasks |-> [i \in 1..Len(o.tasks) |-> DecodeTask(o.tasks[i])],
     columns |-> [i \in 1..Len(o.columns) |-> DecodeColumn(o.columns[i])]]

\* Response::json::<T>(): whether the body deserializes into T.
JsonIsTask(body) == body.kind = "obj" /\ DecodesAsTask(body.obj)
JsonIsProject(body) == body.kind = "obj"
JsonIsProjectList(body) == body.kind = "arr"
JsonIsProjectData(body) == body.kind = "obj" /\ DecodesAsProjectData(body.obj)

\* The bodies the service may answer with.
ErrorObj == [errorCode |-> "unknown_exception"]
TaskObjs ==
    {[id |-> "t1", projectId |-> "p1", title |-> "a", status |-> 0,
      dueDate |-> "2024-01-05T10:00:00+0000"],
     [id |-> "t2", projectId |-> "p1", status |-> 7],
     [title |-> "a"],
     ErrorObj}
ListedTaskObjs == {[id |-> "t1", projectId |-> "p1"], [title |-> "a"]}
ProjectObjs == {[id |-> "p1", name |-> "Work", viewMode |-> "kanban"],
                [name |-> "Inbox"],
                ErrorObj}
ListedProjectObjs == {[id |-> "p1", name |-> "Work"], [name |-> "Inbox"]}

TaskBodies == {BadBody, ArrBody(<<>>)} \cup {ObjBody(o) : o \in TaskObjs}
ProjectBodies == {BadBody, ArrBody(<<>>)} \cup {ObjBody(o) : o \in ProjectObjs}
ProjectListBodies ==
    {BadBody, ObjBody(ErrorObj)} \cup
    {ArrBody(ps) : ps \in SeqsUpTo(ListedProjectObjs, MaxProjects)}
ProjectDataBodies ==
    {BadBody, ObjBody(ErrorObj), ObjBody([tasks |-> <<>>])} \cup
    {ObjBody([tasks |-> ts, columns |-> <<>>]) :
        ts \in SeqsUpTo(ListedTaskObjs, MaxTasks)}

-----------------------------------------------------------------------------
(* The client facade.                                                      *)

AccessTokens ==
    {[value |-> v, token_type |-> "bearer", expires_in |-> 3600,
      scope |-> "tasks:write tasks:read"] : v \in TokenValues}
ProjectIdArgs == {"p1", "p2"}
TaskIdArgs == {"t1"}

\* The client TickTick::new builds: the Authorization header as default header.
BearerClient(access_token) == [authorization |-> "Bearer " \o access_token.value]

TickTick_new(access_token) ==
    /\ pc = "idle"
    /\ ticktick = None
    /\ ticktick' = [kind |-> "TickTick", http_client |-> BearerClient(access_token)]
    /\ frame' = [op |-> "TickTick::new"]
    /\ sent' = <<>>
    /\ resp' = None
    /\ result' = [kind |-> "Ok", value |-> ticktick']
    /\ hist' = NoHistory
    /\ UNCHANGED <<awaiting, builder, pc>>

Get_(client, url) == [method |-> "GET", url |-> url, client |-> client]

ClientError(cause) == [kind |-> "ClientError", cause |-> cause]
StatusError(status) == [kind |-> "ClientError", cause |-> "status", status |-> status]
Ok(value) == [kind |-> "Ok", value |-> value]

\* A call by the caller: the request it sends first, and where it awaits.
\* (The caller makes its fetches while it holds no builder.)
Call(fr, request, await) ==
    /\ pc = "idle"
    /\ builder = None
    /\ frame' = fr
    /\ sent' = <<request>>
    /\ resp' = None
    /\ result' = None
    /\ pc' = await
    /\ hist' = NoHistory
    /\ UNCHANGED <<awaiting, ticktick, builder>>

\* The return of a call at the response r.
Return(await, r, res) ==
    /\ pc = await
    /\ resp' = r
    /\ result' = res
    /\ pc' = "idle"
    /\ UNCHANGED <<awaiting, ticktick, builder, frame, sent, hist>>

\* TickTick::get_task from the response on.
get_task_outcome(self, r) ==
    IF ~r.net THEN ClientError("send")
    ELSE IF error_for_status(r.status) THEN StatusError(r.status)
    ELSE IF ~JsonIsTask(r.body) THEN ClientError("decode")
    ELSE Ok([DecodeTask(r.body.obj) EXCEPT !.http_client = self.http_client])

get_task(project_id, task_id) ==
    /\ ticktick # None
    /\ Call([op |-> "get_task", self |-> ticktick,
             project_id |-> project_id, task_id |-> task_id],
            Get_(ticktick.http_client,
                 "https://ticktick.com/open/v1/project/" \o project_id
                     \o "/task/" \o task_id),
            "get_task_await")

get_task_resume(r) ==
    Return("get_task_await", r, get_task_outcome(frame.self, r))

\* TickTick::get_project from the response on.
get_project_outcome(self, r) ==
    IF ~r.net THEN ClientError("send")
    ELSE IF error_for_status(r.status) THEN StatusError(r.status)
    ELSE IF ~JsonIsProject(r.body) THEN ClientError("decode")
    ELSE Ok([DecodeProject(r.body.obj) EXCEPT !.http_client = self.http_client])

get_project(project_id) ==
    /\ ticktick # None
    /\ Call([op |-> "get_project", self |-> ticktick, project_id |-> project_id],
            Get_(ticktick.http_client,
                 "https://ticktick.com/open/v1/project/" \o project_id),
            "get_project_await")

get_project_resume(r) ==
    Return("get_project_await", r, get_project_outcome(frame.self, r))

GetAllProjectsAttachesNothing(self, r) ==
    IF ~r.net THEN ClientError("send")
    ELSE IF ~JsonIsProjectList(r.body) THEN ClientError("decode")
    ELSE Ok([i \in 1..Len(r.body.arr) |-> DecodeProject(r.body.arr[i])])

\* TickTick::get_all_projects from the response on: no error_for_status.
get_all_projects_outcome(self, r) ==
    IF ~r.net THEN ClientError("send")
    ELSE IF ~JsonIsProjectList(r.body) THEN ClientError("decode")
    ELSE Ok([i \in 1..Len(r.body.arr) |->
                [DecodeProject(r.body.arr[i]) EXCEPT !.http_client = self.http_client]])

get_all_projects ==
    /\ ticktick # None
    /\ Call([op |-> "get_all_projects", self |-> ticktick],
            Get_(ticktick.http_client, "https://ticktick.com/open/v1/project/"),
            "get_all_projects_await")

get_all_projects_resume(r) ==
    Return("get_all_projects_await", r, get_all_projects_outcome(frame.self, r))

\* TickTick::get_project_data and Project::get_data from the response on: the
\* two bodies are the same, `holder` being the facade or the project.
get_data_outcome(holder, r) ==
    IF ~r.net THEN ClientError("send")
    ELSE IF error_for_status(r.status) THEN StatusError(r.status)
    ELSE IF ~JsonIsProjectData(r.body) THEN ClientError("decode")
    ELSE LET project_data == DecodeProjectData(r.body.obj) IN
         Ok([project_data EXCEPT !.tasks =
                [i \in 1..Len(project_data.tasks) |->
                    [project_data.tasks[i] EXCEPT !.http_client = holder.http_client]]])

get_project_data(project_id) ==
    /\ ticktick # None
    /\ Call([op |-> "get_project_data", self |-> ticktick, project_id |-> project_id],
            Get_(ticktick.http_client,
                 "https://ticktick.com/open/v1/project/" \o project_id \o "/data"),
            "get_project_data_await")

get_project_data_resume(r) ==
    Return("get_project_data_await", r, get_data_outcome(frame.self, r))

\* Project::get_tasks: `Ok(self.get_data().await?.tasks)`.
get_tasks_outcome(proj, r) ==
    LET data == get_data_outcome(proj, r) IN
    IF data.kind = "Ok" THEN Ok(data.value.tasks) ELSE data

\* Project::get_columns: `Ok(self.get_data().await?.columns)`.
get_columns_outcome(proj, r) ==
    LET data == get_data_outcome(proj, r) IN
    IF data.kind = "Ok" THEN Ok(data.value.columns) ELSE data

\* The request Project::get_data sends.
get_data_request(proj) ==
    Get_(proj.http_client,
         "https://ticktick.com/open/v1/project/" \o proj.id \o "/data")

\* TickTick::get_all_tasks_in_projects up to its first await, inside
\* get_all_projects.
get_all_tasks_in_projects ==
    /\ ticktick # None
    /\ Call([op |-> "get_all_tasks_in_projects", self |-> ticktick,
             projects |-> <<>>, i |-> 0, value |-> <<>>],
            Get_(ticktick.http_client, "https://ticktick.com/open/v1/project/"),
            "get_all_tasks_projects_await")

\* ... from the project list's response to the first get_tasks, or the return.
get_all_tasks_in_projects_listed(r) ==
    /\ pc = "get_all_tasks_projects_await"
    /\ resp' = r
    /\ hist' = [hist EXCEPT
                  !.allOk = r.net /\ IsSuccess(r.status) /\ r.body.kind = "arr",
                  !.listed = IF r.net /\ r.body.kind = "arr" THEN r.body.arr ELSE <<>>]
    /\ LET projects == get_all_projects_outcome(frame.self, r) IN
       IF projects.kind # "Ok"
       THEN /\ result' = projects
            /\ pc' = "idle"
            /\ UNCHANGED <<frame, sent>>
       ELSE IF Len(projects.value) = 0
       THEN /\ result' = Ok(<<>>)
            /\ pc' = "idle"
            /\ frame' = [frame EXCEPT !.projects = projects.value]
            /\ UNCHANGED sent
       ELSE /\ result' = None
            /\ pc' = "get_all_tasks_data_await"
            /\ frame' = [frame EXCEPT !.projects = projects.value, !.i = 1]
            /\ sent' = Append(sent, get_data_request(projects.value[1]))
    /\ UNCHANGED <<awaiting, ticktick, builder>>

AppendDropsEarlier(value, tasks) == tasks
\* `value.append(&mut tasks)`.
VecAppend(value, tasks) == value \o tasks

\* ... from one project's data response to the next get_tasks, or the return.
get_all_tasks_in_projects_data(r) ==
    /\ pc = "get_all_tasks_data_await"
    /\ resp' = r
    /\ hist' = [hist EXCEPT
                  !.allOk = hist.allOk /\ r.net /\ IsSuccess(r.status)
                            /\ r.body.kind = "obj"
                            /\ {"tasks", "columns"} \subseteq DOMAIN r.body.obj,
                  !.served = IF r.net /\ r.body.kind = "obj"
                                /\ "tasks" \in DOMAIN r.body.obj
                             THEN Append(hist.served, r.body.obj.tasks)
                             ELSE hist.served]
    /\ LET proj == frame.projects[frame.i]
           tasks == get_tasks_outcome(proj, r)
       IN
       IF tasks.kind # "Ok"
       THEN /\ result' = tasks
            /\ pc' = "idle"
            /\ UNCHANGED <<frame, sent>>
       ELSE LET value == VecAppend(frame.value, tasks.value) IN
            IF frame.i = Len(frame.projects)
            THEN /\ result' = Ok(value)
                 /\ pc' = "idle"
                 /\ frame' = [frame EXCEPT !.value = value]
                 /\ UNCHANGED sent
            ELSE /\ result' = None
                 /\ pc' = "get_all_tasks_data_await"
                 /\ frame' = [frame EXCEPT !.value = value, !.i = frame.i + 1]
                 /\ sent' = Append(sent, get_data_request(frame.projects[frame.i + 1]))
    /\ UNCHANGED <<awaiting, ticktick, builder>>

\* The Project instances the last call handed to the caller.
ReturnedProjects ==
    IF result.kind # "Ok" THEN {}
    ELSE IF frame.op \in {"get_project", "ProjectBuilder::build_and_publish"}
         THEN {result.value}
    ELSE IF frame.op = "get_all_projects"
         THEN {result.value[i] : i \in 1..Len(result.value)}
    ELSE {}

\* Project::get_data, Project::get_tasks and Project::get_columns on a project
\* the caller was handed.
Project_get_data(proj) ==
    Call([op |-> "Project::get_data", self |-> proj],
         get_data_request(proj), "Project_get_data_await")
Project_get_data_resume(r) ==
    Return("Project_get_data_await", r, get_data_outcome(frame.self, r))

Project_get_tasks(proj) ==
    Call([op |-> "Project::get_tasks", self |-> proj],
         get_data_request(proj), "Project_get_tasks_await")
Project_get_tasks_resume(r) ==
    Return("Project_get_tasks_await", r, get_tasks_outcome(frame.self, r))

Project_get_columns(proj) ==
    Call([op |-> "Project::get_columns", self |-> proj],
         get_data_request(proj), "Project_get_columns_await")
Project_get_columns_resume(r) ==
    Return("Project_get_columns_await", r, get_columns_outcome(frame.self, r))

-----------------------------------------------------------------------------
(* Builders.                                                               *)

NoneOpt == [some |-> FALSE]
Some(v) == [some |-> TRUE, val |-> v]

\* Serialize for Subtask: the id is skipped when it is empty.  The caller
\* can only make Subtask::default(), the fields being private.
DefaultSubtask == DecodeSubtask(<<>>)
SubtaskJson(st) ==
    LET keys == {"title", "status", "completedTime", "isAllDay", "sortOrder",
                 "startDate", "timeZone"}
                \cup (IF is_empty(st.id) THEN {} ELSE {"id"})
    IN [k \in keys |->
          CASE k = "id" -> st.id
            [] k = "title" -> st.title
            [] k = "status" -> SubtaskStatusCode(st.status)
            [] k = "completedTime" -> FormatDatetime(st.completed_time)
            [] k = "isAllDay" -> st.is_all_day
            [] k = "sortOrder" -> st.sort_order
            [] k = "startDate" -> FormatDatetime(st.start_date)
            [] k = "timeZone" -> st.time_zone]

\* Serialize for Task: http_client is skipped; id and projectId are skipped
\* when empty; every other field is written, names in camelCase.
TaskKeys(task) ==
    {"title", "isAllDay", "completedTime", "content", "desc", "dueDate", "items",
     "priority", "reminders", "repeatFlag", "sortOrder", "startDate", "status",
     "timeZone", "tags"}
    \cup (IF is_empty(task.id) THEN {} ELSE {"id"})
    \cup (IF is_empty(task.project_id) THEN {} ELSE {"projectId"})
TaskJson(task) ==
    [k \in TaskKeys(task) |->
        CASE k = "id" -> task.id
          [] k = "projectId" -> task.project_id
          [] k = "title" -> task.title
          [] k = "isAllDay" -> task.is_all_day
          [] k = "completedTime" -> FormatDatetime(task.completed_time)
          [] k = "content" -> task.content
          [] k = "desc" -> task.desc
          [] k = "dueDate" -> FormatDatetime(task.due_date)
          [] k = "items" ->
                [i \in 1..Len(task.subtasks) |-> SubtaskJson(task.subtasks[i])]
          [] k = "priority" -> TaskPriorityCode(task.priority)
          [] k = "reminders" -> task.reminders
          [] k = "repeatFlag" -> task.repeat_flag
          [] k = "sortOrder" -> task.sort_order
          [] k = "startDate" -> FormatDatetime(task.start_date)
          [] k = "status" -> TaskStatusCode(task.status)
          [] k = "timeZone" -> task.time_zone
          [] k = "tags" -> task.tags]

\* Serialize for Project: http_client is skipped, every other field written.
ProjectJson(project) ==
    [id |-> project.id,
     name |-> project.name,
     color |-> project.color,
     sortOrder |-> project.sort_order,
     closed |-> project.closed,
     groupId |-> project.group_id,
     viewMode |-> ProjectViewModeName(project.view_mode),
     permission |-> ProjectUserPermissionsName(project.permission),
     kind |-> ProjectKindName(project.kind)]

\* TaskBuilder::new: the title, the facade's client, every other field Default.
TaskBuilder_default(http_client, title) ==
    [struct |-> "TaskBuilder",
     http_client |-> http_client,
     title |-> title,
     project_id |-> NoneOpt,
     is_all_day |-> NoneOpt,
     completed_time |-> NoneOpt,
     content |-> NoneOpt,
     desc |-> NoneOpt,
     due_date |-> NoneOpt,
     subtasks |-> <<>>,
     priority |-> NoneOpt,
     reminders |-> <<>>,
     repeat_flag |-> NoneOpt,
     sort_order |-> NoneOpt,
     start_date |-> NoneOpt,
     status |-> NoneOpt,
     time_zone |-> NoneOpt,
     tags |-> <<>>]

\* Serialize for TaskBuilder: http_client is skipped, an Option is skipped
\* when None, a Vec when empty; names are camelCase, subtasks is "items".
TaskBuilderKeys(b) ==
    {"title"}
    \cup (IF b.project_id.some THEN {"projectId"} ELSE {})
    \cup (IF b.is_all_day.some THEN {"isAllDay"} ELSE {})
    \cup (IF b.completed_time.some THEN {"completedTime"} ELSE {})
    \cup (IF b.content.some THEN {"content"} ELSE {})
    \cup (IF b.desc.some THEN {"desc"} ELSE {})
    \cup (IF b.due_date.some THEN {"dueDate"} ELSE {})
    \cup (IF b.subtasks # <<>> THEN {"items"} ELSE {})
    \cup (IF b.priority.some THEN {"priority"} ELSE {})
    \cup (IF b.reminders # <<>> THEN {"reminders"} ELSE {})
    \cup (IF b.repeat_flag.some THEN {"repeatFlag"} ELSE {})
    \cup (IF b.sort_order.some THEN {"sortOrder"} ELSE {})
    \cup (IF b.start_date.some THEN {"startDate"} ELSE {})
    \cup (IF b.status.some THEN {"status"} ELSE {})
    \cup (IF b.time_zone.some THEN {"timeZone"} ELSE {})
    \cup (IF b.tags # <<>> THEN {"tags"} ELSE {})

TaskBuilderJson(b) ==
    [k \in TaskBuilderKeys(b) |->
        CASE k = "title" -> b.title
          [] k = "projectId" -> b.project_id.val
          [] k = "isAllDay" -> b.is_all_day.val
          [] k = "completedTime" -> FormatDatetime(b.completed_time.val)
          [] k = "content" -> b.content.val
          [] k = "desc" -> b.desc.val
          [] k = "dueDate" -> FormatDatetime(b.due_date.val)
          [] k = "items" -> [i \in 1..Len(b.subtasks) |-> SubtaskJson(b.subtasks[i])]
          [] k = "priority" -> TaskPriorityCode(b.priority.val)
          [] k = "reminders" -> b.reminders
          [] k = "repeatFlag" -> b.repeat_flag.val
          [] k = "sortOrder" -> b.sort_order.val
          [] k = "startDate" -> FormatDatetime(b.start_date.val)
          [] k = "status" -> TaskStatusCode(b.status.val)
          [] k = "timeZone" -> b.time_zone.val
          [] k = "tags" -> b.tags]

\* ProjectBuilder::new, and Serialize for ProjectBuilder.
ProjectBuilder_default(http_client, name) ==
    [struct |-> "ProjectBuilder",
     http_client |-> http_client,
     name |-> name,
     color |-> NoneOpt,
     sort_order |-> NoneOpt,
     view_mode |-> NoneOpt,
     kind |-> NoneOpt]

ProjectBuilderKeys(b) ==
    {"name"}
    \cup (IF b.color.some THEN {"color"} ELSE {})
    \cup (IF b.sort_order.some THEN {"sortOrder"} ELSE {})
    \cup (IF b.view_mode.some THEN {"viewMode"} ELSE {})
    \cup (IF b.kind.some THEN {"kind"} ELSE {})

ProjectBuilderJson(b) ==
    [k \in ProjectBuilderKeys(b) |->
        CASE k = "name" -> b.name
          [] k = "color" -> b.color.val
          [] k = "sortOrder" -> b.sort_order.val
          [] k = "viewMode" -> ProjectViewModeName(b.view_mode.val)
          [] k = "kind" -> ProjectKindName(b.kind.val)]

Titles == {"a"}
Names == {"Work"}

\* A step of the caller that makes or changes the builder it holds.
BuilderStep(op, b) ==
    /\ pc = "idle"
    /\ builder' = b
    /\ frame' = [op |-> op]
    /\ sent' = <<>>
    /\ resp' = None
    /\ result' = Ok(b)
    /\ hist' = NoHistory
    /\ UNCHANGED <<awaiting, ticktick, pc>>

TaskBuilder_new(title) ==
    /\ ticktick # None
    /\ builder = None
    /\ BuilderStep("TaskBuilder::new", TaskBuilder_default(ticktick.http_client, title))

TaskBuilder_project_id(value) ==
    /\ builder # None
    /\ builder.struct = "TaskBuilder"
    /\ ~builder.project_id.some
    /\ BuilderStep("TaskBuilder::project_id", [builder EXCEPT !.project_id = Some(value)])

ProjectBuilder_new(name) ==
    /\ ticktick # None
    /\ builder = None
    /\ BuilderStep("ProjectBuilder::new", ProjectBuilder_default(ticktick.http_client, name))

ProjectBuilder_view_mode(value) ==
    /\ builder # None
    /\ builder.struct = "ProjectBuilder"
    /\ ~builder.view_mode.some
    /\ BuilderStep("ProjectBuilder::view_mode", [builder EXCEPT !.view_mode = Some(value)])

\* A call that consumes the builder: the request it sends, where it awaits.
Publish(op, request, await) ==
    /\ pc = "idle"
    /\ frame' = [op |-> op, self |-> builder]
    /\ builder' = None
    /\ sent' = <<request>>
    /\ resp' = None
    /\ result' = None
    /\ pc' = await
    /\ hist' = NoHistory
    /\ UNCHANGED <<awaiting, ticktick>>

\* TaskBuilder::build_and_publish: the body is the JSON text, sent with
\* RequestBuilder::body; the response is not passed to error_for_status.
TaskBuilder_build_and_publish ==
    /\ builder # None
    /\ builder.struct = "TaskBuilder"
    /\ Publish("TaskBuilder::build_and_publish",
               [method |-> "POST", url |-> "https://ticktick.com/open/v1/task",
                client |-> builder.http_client, content_type |-> "",
                body |-> TaskBuilderJson(builder)],
               "TaskBuilder_publish_await")

TaskBuilder_publish_outcome(self, r) ==
    IF ~r.net THEN ClientError("send")
    ELSE IF ~JsonIsTask(r.body) THEN ClientError("decode")
    ELSE Ok([DecodeTask(r.body.obj) EXCEPT !.http_client = self.http_client])

TaskBuilder_build_and_publish_resume(r) ==
    Return("TaskBuilder_publish_await", r, TaskBuilder_publish_outcome(frame.self, r))

\* ProjectBuilder::build_and_publish: the body is sent with RequestBuilder::json.
ProjectBuilder_build_and_publish ==
    /\ builder # None
    /\ builder.struct = "ProjectBuilder"
    /\ Publish("ProjectBuilder::build_and_publish",
               [method |-> "POST", url |-> "https://ticktick.com/open/v1/project",
                client |-> builder.http_client, content_type |-> "application/json",
                body |-> ProjectBuilderJson(builder)],
               "ProjectBuilder_publish_await")

ProjectBuilder_publish_outcome(self, r) ==
    IF ~r.net THEN ClientError("send")
    ELSE IF ~JsonIsProject(r.body) THEN ClientError("decode")
    ELSE Ok([DecodeProject(r.body.obj) EXCEPT !.http_client = self.http_client])

ProjectBuilder_build_and_publish_resume(r) ==
    Return("ProjectBuilder_publish_await", r,
           ProjectBuilder_publish_outcome(frame.self, r))

-----------------------------------------------------------------------------
(* Operations on a Task or a Project the caller holds.                     *)

\* The Task instances the last call handed to the caller.
ReturnedTasks ==
    IF pc # "idle" \/ result.kind # "Ok" THEN {}
    ELSE IF frame.op \in {"get_task", "TaskBuilder::build_and_publish"}
         THEN {result.value}
    ELSE IF frame.op \in {"get_all_tasks_in_projects", "Project::get_tasks"}
         THEN {result.value[i] : i \in 1..Len(result.value)}
    ELSE IF frame.op \in {"get_project_data", "Project::get_data"}
         THEN {result.value.tasks[i] : i \in 1..Len(result.value.tasks)}
    ELSE {}

\* ... and the Task a call borrowed (&self, &mut self) and left to the caller.
HeldTasks ==
    ReturnedTasks \cup
    (IF pc = "idle" /\ frame.op \in {"Task::publish_changes", "Task::complete"}
     THEN {frame.self} ELSE {})

\* IntoUrl for the String a request is made for: Url::parse, which takes an
\* absolute URL and fails on a reference without a scheme.
IntoUrl(url) == Len(url) >= 8 /\ SubSeq(url, 1, 8) = "https://"

\* The reqwest::Error the calls returning Result<(), reqwest::Error> give.
ReqwestError(cause) == [kind |-> "reqwest::Error", cause |-> cause]

\* RequestBuilder::send: the request goes out when its URL was taken;
\* otherwise send returns the builder's error and nothing is sent.
Send(fr, request, await) ==
    IF IntoUrl(request.url)
    THEN Call(fr, request, await)
    ELSE /\ pc = "idle"
         /\ builder = None
         /\ frame' = fr
         /\ sent' = <<>>
         /\ resp' = None
         /\ result' = ReqwestError("builder")
         /\ hist' = NoHistory
         /\ UNCHANGED <<awaiting, ticktick, builder, pc>>

\* The bodies of the responses these calls do not deserialize.
AnyBodies == {BadBody, ObjBody(ErrorObj)}

\* Task::delete: the task is moved into the call.
Task_delete(task) ==
    Send([op |-> "Task::delete", self |-> task],
         [method |-> "DELETE",
          url |-> "https://ticktick.com/open/v1/project/" \o task.project_id
                      \o "/task/" \o task.id,
          client |-> task.http_client],
         "Task_delete_await")

Task_delete_outcome(r) ==
    IF ~r.net THEN ClientError("send")
    ELSE IF error_for_status(r.status) THEN StatusError(r.status)
    ELSE Ok(<<>>)

\* Task::publish_changes: the task as JSON; the response's text is read and
\* dropped, its status is not looked at.
Task_publish_changes(task) ==
    Send([op |-> "Task::publish_changes", self |-> task],
         [method |-> "POST",
          url |-> "https://ticktick.com/open/v1/task/" \o task.id,
          client |-> task.http_client, content_type |-> "application/json",
          body |-> TaskJson(task)],
         "Task_publish_changes_await")

Task_publish_changes_outcome(r) ==
    IF ~r.net THEN ReqwestError("send") ELSE Ok(<<>>)

\* `self.status = TaskStatus::Completed;`, the first statement of complete.
SetCompleted(task) == [task EXCEPT !.status = "Completed"]

\* Task::complete: the status is set, then the request is made for the path
\* alone, "/open/v1/project/{}/task/{}/complete".
Task_complete(task) ==
    LET self == SetCompleted(task) IN
    Send([op |-> "Task::complete", self |-> self, before |-> task],
         [method |-> "POST",
          url |-> "/open/v1/project/" \o self.project_id
                      \o "/task/" \o self.id \o "/complete",
          client |-> self.http_client, content_type |-> "application/json",
          body |-> TaskJson(self)],
         "Task_complete_await")

Task_complete_outcome(r) ==
    IF ~r.net THEN ReqwestError("send")
    ELSE IF error_for_status(r.status) THEN ReqwestError("status")
    ELSE Ok(<<>>)

\* The three calls above from the response on.
Task_outcome(op, r) ==
    CASE op = "Task::delete" -> Task_delete_outcome(r)
      [] op = "Task::publish_changes" -> Task_publish_changes_outcome(r)
      [] op = "Task::complete" -> Task_complete_outcome(r)

Task_resume(r) ==
    /\ pc \in {"Task_delete_await", "Task_publish_changes_await",
               "Task_complete_await"}
    /\ Return(pc, r, Task_outcome(frame.op, r))

\* Project::publish_changes: as Task::publish_changes.
Project_publish_changes(proj) ==
    Send([op |-> "Project::publish_changes", self |-> proj],
         [method |-> "POST",
          url |-> "https://ticktick.com/open/v1/project/" \o proj.id,
          client |-> proj.http_client, content_type |-> "application/json",
          body |-> ProjectJson(proj)],
         "Project_publish_changes_await")

Project_publish_changes_outcome(r) ==
    IF ~r.net THEN ReqwestError("send") ELSE Ok(<<>>)

Project_publish_changes_resume(r) ==
    Return("Project_publish_changes_await", r, Project_publish_changes_outcome(r))

-----------------------------------------------------------------------------
(* The client library in use: a facade, its fetches, the builders.         *)

Init ==
    /\ awaiting = <<>>
    /\ ticktick = None
    /\ builder = None
    /\ pc = "idle"
    /\ frame = [op |-> "none"]
    /\ sent = <<>>
    /\ resp = None
    /\ result = None
    /\ hist = NoHistory

Next ==
    \/ \E t \in AccessTokens : TickTick_new(t)
    \/ \E p \in ProjectIdArgs, t \in TaskIdArgs : get_task(p, t)
    \/ \E r \in Responses(TaskBodies) : get_task_resume(r)
    \/ \E p \in ProjectIdArgs : get_project(p)
    \/ \E r \in Responses(ProjectBodies) : get_project_resume(r)
    \/ get_all_projects
    \/ \E r \in Responses(ProjectListBodies) : get_all_projects_resume(r)
    \/ \E p \in ProjectIdArgs : get_project_data(p)
    \/ \E r \in Responses(ProjectDataBodies) : get_project_data_resume(r)
    \/ get_all_tasks_in_projects
    \/ \E r \in Responses(ProjectListBodies) : get_all_tasks_in_projects_listed(r)
    \/ \E r \in Responses(ProjectDataBodies) : get_all_tasks_in_projects_data(r)
    \/ \E proj \in ReturnedProjects : Project_get_data(proj)
    \/ \E r \in Responses(ProjectDataBodies) : Project_get_data_resume(r)
    \/ \E proj \in ReturnedProjects : Project_get_tasks(proj)
    \/ \E r \in Responses(ProjectDataBodies) : Project_get_tasks_resume(r)
    \/ \E proj \in ReturnedProjects : Project_get_columns(proj)
    \/ \E r \in Responses(ProjectDataBodies) : Project_get_columns_resume(r)
    \/ \E t \in Titles : TaskBuilder_new(t)
    \/ \E p \in ProjectIdArgs : TaskBuilder_project_id(p)
    \/ TaskBuilder_build_and_publish
    \/ \E r \in Responses(TaskBodies) : TaskBuilder_build_and_publish_resume(r)
    \/ \E n \in Names : ProjectBuilder_new(n)
    \/ \E v \in {"List", "Kanban", "Timeline"} : ProjectBuilder_view_mode(v)
    \/ ProjectBuilder_build_and_publish
    \/ \E r \in Responses(ProjectBodies) : ProjectBuilder_build_and_publish_resume(r)
    \/ \E task \in HeldTasks : Task_delete(task)
    \/ \E task \in HeldTasks : Task_publish_changes(task)
    \/ \E task \in HeldTasks : Task_complete(task)
    \/ \E r \in Responses(AnyBodies) : Task_resume(r)
    \/ \E proj \in ReturnedProjects : Project_publish_changes(proj)
    \/ \E r \in Responses(AnyBodies) : Project_publish_changes_resume(r)

Spec == Init /\ [][Next]_vars

-----------------------------------------------------------------------------
(* The builders on their own: every setter, then build_and_publish.        *)

TaskBuilderSetters ==
    {"title", "project_id", "is_all_day", "completed_time", "content", "desc",
     "due_date", "subtasks", "priority", "reminders", "repeat_flag",
     "sort_order", "start_date", "status", "time_zone", "tags"}
ProjectBuilderSetters == {"name", "color", "view_mode", "kind"}

\* The name the field a setter stores to has in the payload.
PayloadKey(setter) ==
    CASE setter = "project_id" -> "projectId"
      [] setter = "is_all_day" -> "isAllDay"
      [] setter = "completed_time" -> "completedTime"
      [] setter = "due_date" -> "dueDate"
      [] setter = "subtasks" -> "items"
      [] setter = "repeat_flag" -> "repeatFlag"
      [] setter = "sort_order" -> "sortOrder"
      [] setter = "start_date" -> "startDate"
      [] setter = "time_zone" -> "timeZone"
      [] setter = "view_mode" -> "viewMode"
      [] OTHER -> setter

\* The values the setters are called with.
SetterArgs(setter) ==
    CASE setter \in {"title", "name"} -> {"a", "b"}
      [] setter = "project_id" -> {"p1"}
      [] setter = "is_all_day" -> BOOLEAN
      [] setter \in {"completed_time", "due_date", "start_date"} ->
            {[year |-> 2024, month |-> 2, day |-> 29,
              hour |-> 23, minute |-> 59, second |-> 0]}
      [] setter = "content" -> {"", "x"}
      [] setter \in {"desc", "repeat_flag", "time_zone", "color"} -> {"x"}
      [] setter = "subtasks" -> {<<>>, <<DefaultSubtask>>}
      [] setter = "priority" -> {"None", "High"}
      [] setter \in {"reminders", "tags"} -> {<<>>, <<"x">>}
      [] setter = "sort_order" -> {0}
      [] setter = "status" -> TaskStatusVariants
      [] setter = "view_mode" -> ProjectViewModeVariants
      [] setter = "kind" -> ProjectKindVariants

SetterKeepsBuilder(b, setter, value) == b
SetterResetsClient(b, setter, value) ==
    IF setter \in {"title", "name", "subtasks", "reminders", "tags"}
    THEN [b EXCEPT ![setter] = value, !.http_client = [authorization |-> ""]]
    ELSE [b EXCEPT ![setter] = Some(value), !.http_client = [authorization |-> ""]]
\* The setters of TaskBuilder and ProjectBuilder: `self.title = value.into()`
\* (name likewise), `self.subtasks = value` (reminders, tags likewise), and
\* for every other field `self.field = Some(value)`.
Set(b, setter, value) ==
    IF setter \in {"title", "name", "subtasks", "reminders", "tags"}
    THEN [b EXCEPT ![setter] = value]
    ELSE [b EXCEPT ![setter] = Some(value)]

\* Serialize for the builder the caller holds.
BuilderJson(b) ==
    IF b.struct = "TaskBuilder" THEN TaskBuilderJson(b) ELSE ProjectBuilderJson(b)

\* A setter call: the builder is moved in, changed and returned.
SetterStep(b, setter, value) ==
    /\ pc = "idle"
    /\ Cardinality(DOMAIN BuilderJson(b)) <= MaxSetFields
    /\ builder' = Set(b, setter, value)
    /\ frame' = [op |-> "setter", struct |-> b.struct, setter |-> setter,
                 value |-> value, self |-> b]
    /\ sent' = <<>>
    /\ resp' = None
    /\ result' = Ok(builder')
    /\ hist' = NoHistory
    /\ UNCHANGED <<awaiting, ticktick, pc>>

TaskBuilder_setter(setter, value) ==
    /\ builder # None
    /\ builder.struct = "TaskBuilder"
    /\ SetterStep(builder, setter, value)

ProjectBuilder_setter(setter, value) ==
    /\ builder # None
    /\ builder.struct = "ProjectBuilder"
    /\ SetterStep(builder, setter, value)

\* The answers to a creation drawn here: a failed send, or the created task.
CreatedResponses ==
    {r \in Responses(TaskBodies) :
        r.net => r.status = 200 /\ r.body.kind = "obj" /\ r.body.obj # ErrorObj}

NextBuilder ==
    \/ \E t \in AccessTokens : TickTick_new(t)
    \/ \E t \in Titles : TaskBuilder_new(t)
    \/ \E setter \in TaskBuilderSetters : \E value \in SetterArgs(setter) :
          TaskBuilder_setter(setter, value)
    \/ TaskBuilder_build_and_publish
    \/ \E r \in CreatedResponses : TaskBuilder_build_and_publish_resume(r)
    \/ \E n \in Names : ProjectBuilder_new(n)
    \/ \E setter \in ProjectBuilderSetters : \E value \in SetterArgs(setter) :
          ProjectBuilder_setter(setter, value)
    \/ ProjectBuilder_build_and_publish
    \/ \E r \in Responses(ProjectBodies) : ProjectBuilder_build_and_publish_resume(r)
    \/ \E task \in HeldTasks : Task_publish_changes(task)
    \/ \E r \in Responses(AnyBodies) : Task_resume(r)

SpecBuilder == Init /\ [][NextBuilder]_vars

-----------------------------------------------------------------------------
(* The wire codecs on their own: the enums and the datetime format.        *)

StringEnums == {"ProjectViewMode", "ProjectUserPermissions", "ProjectKind"}
ReprEnums == {"TaskPriority", "TaskStatus", "SubtaskStatus"}

Variants(enum) ==
    CASE enum = "ProjectViewMode" -> ProjectViewModeVariants
      [] enum = "ProjectUserPermissions" -> ProjectUserPermissionsVariants
      [] enum = "ProjectKind" -> ProjectKindVariants
      [] enum = "TaskPriority" -> TaskPriorityVariants
      [] enum = "TaskStatus" -> TaskStatusVariants
      [] enum = "SubtaskStatus" -> SubtaskStatusVariants

\* The variant an enum's #[default] names.
DefaultVariant(enum) ==
    CASE enum = "ProjectViewMode" -> "List"
      [] enum = "ProjectUserPermissions" -> "Read"
      [] enum = "ProjectKind" -> "Task"
      [] enum = "TaskPriority" -> "None"
      [] enum = "TaskStatus" -> "Normal"
      [] enum = "SubtaskStatus" -> "Normal"

\* Serialize for each enum.
EnumSerialize(enum, v) ==
    CASE enum = "ProjectViewMode" -> ProjectViewModeName(v)
      [] enum = "ProjectUserPermissions" -> ProjectUserPermissionsName(v)
      [] enum = "ProjectKind" -> ProjectKindName(v)
      [] enum = "TaskPriority" -> TaskPriorityCode(v)
      [] enum = "TaskStatus" -> TaskStatusCode(v)
      [] enum = "SubtaskStatus" -> SubtaskStatusCode(v)

DeError == [kind |-> "DeError"]

\* Deserialize for each enum: through From<String> for the string-backed
\* ones, through the discriminants for the serde_repr ones.
EnumDeserialize(enum, wire) ==
    CASE enum = "ProjectViewMode" -> Ok(ProjectViewModeFrom(wire))
      [] enum = "ProjectUserPermissions" -> Ok(ProjectUserPermissionsFrom(wire))
      [] enum = "ProjectKind" -> Ok(ProjectKindFrom(wire))
      [] enum = "TaskPriority" ->
            IF TaskPriorityKnown(wire) THEN Ok(TaskPriorityFrom(wire)) ELSE DeError
      [] enum = "TaskStatus" ->
            IF TaskStatusKnown(wire) THEN Ok(TaskStatusFrom(wire)) ELSE DeError
      [] enum = "SubtaskStatus" ->
            IF SubtaskStatusKnown(wire) THEN Ok(SubtaskStatusFrom(wire)) ELSE DeError

\* The wire values handed to the deserializers: every canonical name, the
\* same names in another case, names no enum has; every code of a u8's low
\* range, its last code, and a number no u8 holds.
WireStrings ==
    {"list", "kanban", "timeline", "read", "write", "comment", "TASK", "NOTE",
     "List", "KANBAN", "Timeline", "Read", "WRITE", "task", "Note", "", "board"}
WireCodes == 0..7 \cup {255, 256}
Wires(enum) == IF enum \in StringEnums THEN WireStrings ELSE WireCodes

\* A step that applies a codec: what it was applied to, what it gave.
Apply(fr, res) ==
    /\ pc = "idle"
    /\ frame' = fr
    /\ result' = res
    /\ UNCHANGED <<awaiting, ticktick, builder, pc, sent, resp, hist>>

serialize(enum, v) ==
    Apply([op |-> "serialize", enum |-> enum, input |-> v],
          Ok(EnumSerialize(enum, v)))

deserialize(enum, wire) ==
    Apply([op |-> "deserialize", enum |-> enum, input |-> wire],
          EnumDeserialize(enum, wire))

\* Deserialize applied to what the last serialize wrote.
deserialize_serialized ==
    /\ frame.op = "serialize"
    /\ Apply([op |-> "deserialize", enum |-> frame.enum, input |-> result.value,
              of |-> frame.input],
             EnumDeserialize(frame.enum, result.value))

\* The timestamps handed to the datetime codec, and the strings.
SampleDateTimes ==
    {d \in [year : {1970, 2024, 9999}, month : {1, 2, 12}, day : {1, 29, 31},
            hour : {0, 23}, minute : {0, 59}, second : {0, 59}] : IsDateTime(d)}
\* Strings of the format with fewer digits or another offset.
LooseStrings ==
    {"2024-1-5T1:2:3+0000", "2024-01-05T10:00:00+09:30", "2024-01-05T10:00:00-0500"}
\* Strings of another format, or naming no date or time of day.
OtherStrings ==
    {"", "yesterday", "2024-01-05", "2024-01-05T10:00:00", "2024-01-05T10:00+0000",
     "2024-01-05 10:00:00+0000", "2024/01/05T10:00:00+0000",
     "2024-01-05T10:00:00.000+0000", "2024-01-05T10:00:00+0000x",
     "2024-01-05T10:00:00+00", "1704448800",
     "2024-13-05T10:00:00+0000", "2024-02-30T10:00:00+0000",
     "2024-01-05T25:00:00+0000"}

\* ticktick_datetime_format::serialize.
datetime_serialize(date) ==
    Apply([op |-> "datetime::serialize", input |-> date], Ok(FormatDatetime(date)))

\* ticktick_datetime_format::deserialize: the parse error becomes the
\* deserializer's error; the naive value is taken as a time in Utc.
datetime_deserialize_outcome(s) ==
    LET dt == ParseDatetime(s) IN IF dt.ok THEN Ok(dt.value) ELSE DeError

datetime_deserialize(s) ==
    Apply([op |-> "datetime::deserialize", input |-> s],
          datetime_deserialize_outcome(s))

datetime_deserialize_serialized ==
    /\ frame.op = "datetime::serialize"
    /\ Apply([op |-> "datetime::deserialize", input |-> result.value,
              of |-> frame.input],
             datetime_deserialize_outcome(result.value))

NextCodec ==
    \/ \E enum \in StringEnums \cup ReprEnums : \E v \in Variants(enum) :
          serialize(enum, v)
    \/ \E enum \in StringEnums \cup ReprEnums : \E wire \in Wires(enum) :
          deserialize(enum, wire)
    \/ deserialize_serialized
    \/ \E date \in SampleDateTimes : datetime_serialize(date)
    \/ \E s \in LooseStrings \cup OtherStrings : datetime_deserialize(s)
    \/ datetime_deserialize_serialized

SpecCodec == Init /\ [][NextCodec]_vars

-----------------------------------------------------------------------------
(* Claims about the codecs, checked under SpecCodec.                       *)

\* C14: for every enum and every variant v, deserializing what serialize
\* wrote for v gives v; the wire values are the canonical-case names
\* (list/kanban/timeline, read/write/comment, TASK/NOTE) and the numeric
\* codes (0/1/3/5, 0/2, 0/1); two variants of one enum never share a wire
\* value.
CanonicalWire(enum) ==
    CASE enum = "ProjectViewMode" -> {"list", "kanban", "timeline"}
      [] enum = "ProjectUserPermissions" -> {"read", "write", "comment"}
      [] enum = "ProjectKind" -> {"TASK", "NOTE"}
      [] enum = "TaskPriority" -> {0, 1, 3, 5}
      [] enum = "TaskStatus" -> {0, 2}
      [] enum = "SubtaskStatus" -> {0, 1}

C14_EnumsRoundTrip ==
    /\ frame.op = "serialize" =>
          /\ result.kind = "Ok"
          /\ result.value \in CanonicalWire(frame.enum)
          /\ \A u \in Variants(frame.enum) \ {frame.input} :
                EnumSerialize(frame.enum, u) # result.value
    /\ (frame.op = "deserialize" /\ "of" \in DOMAIN frame) =>
          result = Ok(frame.of)
    /\ \A enum \in StringEnums \cup ReprEnums :
          Cardinality(CanonicalWire(enum)) = Cardinality(Variants(enum))

C14_Witness ==
    /\ frame.op = "deserialize"
    /\ "of" \in DOMAIN frame
    /\ frame.enum = "ProjectKind"
    /\ frame.of = "Note"
    /\ frame.input = "NOTE"
    /\ result = Ok("Note")

\* C15: a string outside the known names of a string-backed enum, a known
\* name in another case included, deserializes without error to the enum's
\* default variant (List, Read, Task); a code outside {0,1,3,5}, {0,2},
\* {0,1} fails the deserialization of priority, task status and subtask
\* status, with no default in its place, and a code inside gives no error.
C15_UnknownWireValues ==
    (frame.op = "deserialize") =>
        /\ (frame.enum \in StringEnums
              /\ frame.input \notin CanonicalWire(frame.enum)) =>
              result = Ok(DefaultVariant(frame.enum))
        /\ frame.enum \in StringEnums => result.kind = "Ok"
        /\ (frame.enum \in ReprEnums
              /\ frame.input \notin CanonicalWire(frame.enum)) =>
              result = DeError
        /\ (frame.enum \in ReprEnums
              /\ frame.input \in CanonicalWire(frame.enum)) =>
              result.kind = "Ok"

C15_Witness ==
    /\ frame.op = "deserialize"
    /\ frame.enum = "ProjectViewMode"
    /\ frame.input = "KANBAN"
    /\ result = Ok("List")

\* C16: the datetime codec writes a timestamp without sub-second part as
\* YYYY-MM-DDTHH:MM:SS followed by the numeric offset +0000, and reading
\* back what it wrote gives the timestamp it was given; a string that is not
\* of this pattern (no offset, no time, another separator, a fraction,
\* trailing text, a field out of range) is an error, never a value.
IsOfThePattern(s) ==
    /\ Len(s) = 24
    /\ \A i \in {1, 2, 3, 4, 6, 7, 9, 10, 12, 13, 15, 16, 18, 19, 21, 22, 23, 24} :
          IsDigit(CharAt(s, i))
    /\ CharAt(s, 5) = "-" /\ CharAt(s, 8) = "-"
    /\ CharAt(s, 11) = "T"
    /\ CharAt(s, 14) = ":" /\ CharAt(s, 17) = ":"
    /\ CharAt(s, 20) \in {"+", "-"}

-----------------------------------------------------------------------------
(* Claims about the client facade and the builders, checked under Spec.    *)

Returned(op) == frame.op = op /\ pc = "idle" /\ resp # None

FacadeFetches == {"get_task", "get_project", "get_all_projects", "get_project_data"}
Publishes == {"TaskBuilder::build_and_publish", "ProjectBuilder::build_and_publish"}

Flatten(ss) ==
    LET F[k \in 0..Len(ss)] == IF k = 0 THEN <<>> ELSE F[k - 1] \o ss[k]
    IN F[Len(ss)]

\* What identifies a task in a response: the id and the title of its object.
Served(o) == <<Get(o, "id", ""), Get(o, "title", "")>>

\* C4: when every request succeeds, get_all_tasks_in_projects returns the
\* concatenation of the projects' task lists, the projects in the order of
\* the project-list response and each project's tasks in the order of its
\* data response: one data request per listed project, in list order, and a
\* result holding exactly the served tasks, none dropped, doubled or moved.
C4_AllTasksIsTheConcatenation ==
    (Returned("get_all_tasks_in_projects") /\ hist.allOk) =>
        /\ result.kind = "Ok"
        /\ Len(sent) = 1 + Len(hist.listed)
        /\ \A k \in 1..Len(hist.listed) :
              sent[k + 1].url = "https://ticktick.com/open/v1/project/"
                                  \o Get(hist.listed[k], "id", "") \o "/data"
        /\ Len(hist.served) = Len(hist.listed)
        /\ LET all == Flatten(hist.served) IN
              /\ Len(result.value) = Len(all)
              /\ \A k \in 1..Len(all) :
                    <<result.value[k].id, result.value[k].title>> = Served(all[k])

C4_Witness ==
    /\ Returned("get_all_tasks_in_projects")
    /\ hist.allOk
    /\ Len(hist.listed) = 2
    /\ Len(hist.served[1]) = 2
    /\ Served(hist.served[1][1]) # Served(hist.served[1][2])
    /\ Len(hist.served[2]) = 0
    /\ Len(result.value) = 2

\* C5: in get_all_tasks_in_projects, if the project-list fetch or the data
\* fetch of one project fails (a failed send, a non-2xx answer, a body of
\* another schema), the call returns an error -- no task list -- and sends
\* no data request for a later project.
C5_AnyFailureAbortsTheFanOut ==
    (frame.op = "get_all_tasks_in_projects" /\ resp # None /\ ~hist.allOk) =>
        /\ pc = "idle"
        /\ result.kind = "ClientError"

\* C6: get_task, get_project, get_all_projects and get_project_data return
\* the transport/status error (ClientError) whenever the answer is not 2xx,
\* whatever the body is; none of them returns Ok for such an answer.
C6_NonSuccessStatusIsAnError ==
    \A op \in FacadeFetches :
        (Returned(op) /\ resp.net /\ ~IsSuccess(resp.status)) =>
            /\ result.kind # "Ok"
            /\ result.kind = "ClientError"

\* Whether the body has the schema the operation deserializes it into.
BodyMatchesSchema(op, body) ==
    CASE op \in {"get_task", "TaskBuilder::build_and_publish"} -> JsonIsTask(body)
      [] op \in {"get_project", "ProjectBuilder::build_and_publish"} -> JsonIsProject(body)
      [] op = "get_all_projects" -> JsonIsProjectList(body)
      [] op = "get_project_data" -> JsonIsProjectData(body)

\* C7: a 2xx response whose body does not match the expected schema makes
\* the fetch and builder operations return ResponseParseError, not
\* ClientError.
C7_BadBodyIsAParseError ==
    \A op \in FacadeFetches \cup Publishes :
        (Returned(op) /\ resp.net /\ IsSuccess(resp.status)
            /\ ~BodyMatchesSchema(op, resp.body)) =>
            result.kind = "ResponseParseError"

\* C8: both build_and_publish return a client error whenever the creation
\* request fails to be sent or is answered with a non-2xx status, never
\* Ok(resource), and send the creation request once.
C8_PublishFailsOnNonSuccess ==
    \A op \in Publishes :
        /\ (frame.op = op /\ pc # "idle") => Len(sent) = 1
        /\ Returned(op) => Len(sent) = 1
        /\ (Returned(op) /\ (~resp.net \/ ~IsSuccess(resp.status))) =>
              result.kind = "ClientError"

\* The Task and Project instances the last call returned as Ok.
ReturnedInstances ==
    IF pc # "idle" \/ result.kind # "Ok" THEN {}
    ELSE IF frame.op \in {"get_task", "get_project"} \cup Publishes
         THEN {result.value}
    ELSE IF frame.op \in {"get_all_projects", "get_all_tasks_in_projects",
                          "Project::get_tasks"}
         THEN {result.value[i] : i \in 1..Len(result.value)}
    ELSE IF frame.op \in {"get_project_data", "Project::get_data"}
         THEN {result.value.tasks[i] : i \in 1..Len(result.value.tasks)}
    ELSE {}

\* C9: every Task or Project returned as Ok by a create or fetch operation
\* has a non-empty identifier, whatever the service answered.
C9_ReturnedInstancesHaveAnId ==
    \A x \in ReturnedInstances : x.id # ""

\* C10: every Task and Project a fetch or builder operation returns carries
\* the bearer-authorized client of the facade, builder or project that
\* produced it, never the default client; the facade's client is the one
\* TickTick::new built, and no payload sent holds the handle.
IsBearer(client) == \E t \in AccessTokens : client = BearerClient(t)

C10_InstancesCarryTheBearerClient ==
    /\ \A x \in ReturnedInstances :
          /\ x.http_client = frame.self.http_client
          /\ x.http_client = ticktick.http_client
          /\ x.http_client # DefaultClient
          /\ IsBearer(x.http_client)
    /\ \A x \in ReturnedProjects : IsBearer(x.http_client)
    /\ builder # None => builder.http_client = ticktick.http_client
    /\ ticktick # None => IsBearer(ticktick.http_client)
    /\ \A k \in 1..Len(sent) :
          /\ sent[k].client = ticktick.http_client
          /\ "body" \in DOMAIN sent[k] =>
                DOMAIN sent[k].body \cap {"http_client", "httpClient"} = {}

C10_Witness ==
    /\ Returned("Project::get_tasks")
    /\ result.kind = "Ok"
    /\ Len(result.value) = 2
    /\ result.value[1].http_client = [authorization |-> "Bearer tok2"]

\* The server-side task is completed by a completion request the service
\* received and answered with a 2xx status, and by nothing else a call does.
ServerCompleted ==
    /\ Len(sent) = 1
    /\ resp # None
    /\ resp.net
    /\ IsSuccess(resp.status)

\* C12: Task::complete sets the local status to Completed and then POSTs the
\* task to the completion endpoint; the status stays Completed whatever the
\* call returns; when it returns an error the server-side task is unchanged,
\* when it returns Ok the server-side task is completed too.
C12_CompleteSetsThenPosts ==
    (frame.op = "Task::complete" /\ ~is_empty(frame.self.id)) =>
        /\ frame.self = [frame.before EXCEPT !.status = "Completed"]
        /\ Len(sent) = 1
        /\ sent[1].method = "POST"
        /\ sent[1].body = TaskJson(frame.self)
        /\ (pc = "idle" /\ result.kind # "Ok") => ~ServerCompleted
        /\ (pc = "idle" /\ result.kind = "Ok") => ServerCompleted

\* C13: every request sent targets an absolute URL under
\* https://ticktick.com/open/v1/; Task::complete sends its POST to
\* https://ticktick.com/open/v1/project/{projectId}/task/{taskId}/complete
\* and returns an error only when the send failed or the answer was not 2xx.
InService(url) ==
    /\ Len(url) >= 29
    /\ SubSeq(url, 1, 29) = "https://ticktick.com/open/v1/"

C13_RequestsTargetTheBaseUrl ==
    /\ \A k \in 1..Len(sent) : InService(sent[k].url)
    /\ (frame.op = "Task::complete" /\ ~is_empty(frame.self.id)) =>
          /\ Len(sent) = 1
          /\ sent[1].url = "https://ticktick.com/open/v1/project/"
                              \o frame.self.project_id \o "/task/"
                              \o frame.self.id \o "/complete"
          /\ (pc = "idle" /\ result.kind # "Ok") =>
                /\ resp # None
                /\ (~resp.net \/ ~IsSuccess(resp.status))

\* C17: Task::publish_changes and Project::publish_changes POST the JSON of
\* the whole instance to task/{taskId}, project/{projectId}, once, and return
\* an error whenever the send fails or the answer is not 2xx; never Ok for a
\* non-2xx answer.
PublishChanges == {"Task::publish_changes", "Project::publish_changes"}

C17_PublishChangesFailsOnNonSuccess ==
    /\ frame.op = "Task::publish_changes" =>
          sent = <<[method |-> "POST",
                    url |-> "https://ticktick.com/open/v1/task/" \o frame.self.id,
                    client |-> frame.self.http_client,
                    content_type |-> "application/json",
                    body |-> TaskJson(frame.self)]>>
    /\ frame.op = "Project::publish_changes" =>
          sent = <<[method |-> "POST",
                    url |-> "https://ticktick.com/open/v1/project/" \o frame.self.id,
                    client |-> frame.self.http_client,
                    content_type |-> "application/json",
                    body |-> ProjectJson(frame.self)]>>
    /\ \A op \in PublishChanges :
          (Returned(op) /\ ~is_empty(frame.self.id)
              /\ (~resp.net \/ ~IsSuccess(resp.status))) =>
              result.kind # "Ok"

\* C19: a call has at most one request outstanding and sends no request
\* twice: get_all_tasks_in_projects sends the project-list GET, and after its
\* response one project-data GET per project, each after the response to the
\* one before, in list order, 1 + N in all when all succeed; every other
\* operation that reaches the service, Project::get_tasks and
\* Project::get_columns included, sends exactly one request.
SingleRequestOps ==
    FacadeFetches \cup Publishes \cup PublishChanges \cup
    {"Project::get_data", "Project::get_tasks", "Project::get_columns",
     "Task::delete", "Task::complete"}

C19_OneRequestAtATime ==
    /\ frame.op = "get_all_tasks_in_projects" =>
          /\ Len(sent) >= 1
          /\ sent[1] = Get_(frame.self.http_client,
                            "https://ticktick.com/open/v1/project/")
          /\ pc = "get_all_tasks_projects_await" => Len(sent) = 1
          /\ pc = "get_all_tasks_data_await" => Len(sent) = 1 + frame.i
          /\ Len(sent) <= 1 + Len(frame.projects)
          /\ \A k \in 2..Len(sent) :
                sent[k] = get_data_request(frame.projects[k - 1])
          /\ (pc = "idle" /\ result.kind = "Ok") =>
                Len(sent) = 1 + Len(frame.projects)
    /\ (frame.op \in SingleRequestOps
          /\ (frame.op = "Task::complete" => ~is_empty(frame.self.id))) =>
          Len(sent) = 1

-----------------------------------------------------------------------------
(* Claims about the builders and identifiers, checked under SpecBuilder.   *)

RequiredKey(b) == IF b.struct = "TaskBuilder" THEN "title" ELSE "name"
CollectionSetters == {"subtasks", "reminders", "tags"}
AfterSetter == frame.op = "setter" /\ pc = "idle"
\* A setter call with an empty collection as its argument.
EmptyCollectionGiven ==
    frame.setter \in CollectionSetters /\ Len(frame.value) = 0

\* C11 as stated: a builder on which no setter was called serializes to
\* exactly its required field, and every setter call, whatever the setter
\* and the argument, adds exactly one field to the serialized object.
C11_EverySetterAddsOneField ==
    /\ frame.op \in {"TaskBuilder::new", "ProjectBuilder::new"} =>
          DOMAIN BuilderJson(builder) = {RequiredKey(builder)}
    /\ AfterSetter =>
          Cardinality(DOMAIN BuilderJson(builder)) =
              Cardinality(DOMAIN BuilderJson(frame.self)) + 1

\* C11 amended: a builder on which no setter was called serializes to
\* exactly its required field (title / name).  A setter call adds exactly
\* one field, its own, when that field is not yet in the object and the
\* argument is not an empty collection.  The title / name setter and a
\* repeated call replace a value and add no field; subtasks, reminders and
\* tags called with an empty collection add no field, and take their field
\* out if it was there.  No call changes any other field of the object.
C11_SetterAddsItsFieldOnce ==
    /\ frame.op \in {"TaskBuilder::new", "ProjectBuilder::new"} =>
          DOMAIN BuilderJson(builder) = {RequiredKey(builder)}
    /\ AfterSetter =>
          LET before == BuilderJson(frame.self)
              after == BuilderJson(builder)
              key == PayloadKey(frame.setter)
          IN /\ DOMAIN after =
                   IF EmptyCollectionGiven THEN DOMAIN before \ {key}
                   ELSE DOMAIN before \cup {key}
             /\ \A k \in DOMAIN after \ {key} : after[k] = before[k]
             /\ Cardinality(DOMAIN after) =
                   IF EmptyCollectionGiven
                   THEN Cardinality(DOMAIN before)
                        - (IF key \in DOMAIN before THEN 1 ELSE 0)
                   ELSE Cardinality(DOMAIN before)
                        + (IF key \in DOMAIN before THEN 0 ELSE 1)

C11_Witness ==
    /\ AfterSetter
    /\ frame.setter = "tags"
    /\ Len(frame.value) = 1
    /\ DOMAIN BuilderJson(frame.self) = {"title", "priority"}
    /\ DOMAIN BuilderJson(builder) = {"title", "priority", "tags"}

\* C18: is_empty holds of the empty string and of no other (the default
\* identifier is empty, one made from a non-empty string is not); the JSON
\* of a Task has the field id exactly when its id is not empty, and the
\* field projectId exactly when its project id is not empty; the payload a
\* builder sends for a resource to create has no field id.
C18_IdSerializedWhenNotEmpty ==
    /\ is_empty(DefaultId)
    /\ \A id \in ProjectIdArgs \cup TaskIdArgs \cup {" ", "0"} : ~is_empty(id)
    /\ frame.op = "Task::publish_changes" =>
          /\ is_empty(frame.self.id) <=> frame.self.id = ""
          /\ "id" \in DOMAIN sent[1].body <=> frame.self.id # ""
          /\ "projectId" \in DOMAIN sent[1].body <=> frame.self.project_id # ""
          /\ "id" \in DOMAIN sent[1].body => sent[1].body.id = frame.self.id
    /\ \A x \in ReturnedTasks :
          /\ "id" \in DOMAIN TaskJson(x) <=> x.id # ""
          /\ "projectId" \in DOMAIN TaskJson(x) <=> x.project_id # ""
    /\ (frame.op \in Publishes /\ Len(sent) = 1) =>
          /\ sent[1].body = BuilderJson(frame.self)
          /\ "id" \notin DOMAIN sent[1].body

C18_Witness ==
    /\ frame.op = "Task::publish_changes"
    /\ frame.self.id = ""
    /\ frame.self.project_id = ""
    /\ DOMAIN sent[1].body \cap {"id", "projectId"} = {}
    /\ "title" \in DOMAIN sent[1].body

SettersOf(b) ==
    IF b.struct = "TaskBuilder" THEN TaskBuilderSetters ELSE ProjectBuilderSetters
\* What the field of a setter holds once the setter was called with value.
Stored(setter, value) ==
    IF setter \in {"title", "name"} \cup CollectionSetters
    THEN value ELSE Some(value)

\* The state after a setter call: the builder returned differs from the one
\* moved in at the setter's field alone, which holds the value given; the
\* call is accepted for every argument and sends nothing.
SetterChangesItsFieldOnly ==
    AfterSetter =>
        /\ builder # None
        /\ DOMAIN builder = DOMAIN frame.self
        /\ \A f \in DOMAIN frame.self \ {frame.setter} : builder[f] = frame.self[f]
        /\ builder.http_client = frame.self.http_client
        /\ builder[RequiredKey(builder)] =
              IF frame.setter = RequiredKey(builder) THEN frame.value
              ELSE frame.self[RequiredKey(builder)]
        /\ builder[frame.setter] = Stored(frame.setter, frame.value)
        /\ result = Ok(builder)
        /\ sent = <<>>
        /\ resp = None

\* A further call of the same setter keeps the last value only, and calls
\* of two different setters give the same builder in either order.
LastValuePerField ==
    AfterSetter =>
        /\ \A v \in SetterArgs(frame.setter) :
              /\ Set(builder, frame.setter, v) = Set(frame.self, frame.setter, v)
              /\ Set(builder, frame.setter, v)[frame.setter] = Stored(frame.setter, v)
        /\ \A other \in SettersOf(builder) \ {frame.setter} :
              \A v \in SetterArgs(other) :
                /\ Set(builder, other, v) =
                       Set(Set(frame.self, other, v), frame.setter, frame.value)
                /\ BuilderJson(Set(builder, other, v)) =
                       BuilderJson(Set(Set(frame.self, other, v),
                                       frame.setter, frame.value))

\* The steps: a setter call touches the builder and nothing else, and
\* build_and_publish sends the JSON of the builder it is called on.
SetterCall == pc = "idle" /\ frame'.op = "setter"
PublishCall == pc = "idle" /\ pc' # "idle" /\ frame'.op \in Publishes
SettersAndPublish ==
    /\ SetterCall =>
          /\ builder # None
          /\ frame'.self = builder
          /\ frame'.setter \in SettersOf(builder)
          /\ builder' = Set(builder, frame'.setter, frame'.value)
          /\ UNCHANGED <<awaiting, ticktick, pc>>
          /\ sent' = <<>>
    /\ PublishCall =>
          /\ frame'.self = builder
          /\ Len(sent') = 1
          /\ sent'[1].body = BuilderJson(builder)
          /\ sent'[1].client = builder.http_client

\* C21: a setter of TaskBuilder or ProjectBuilder changes its own field and
\* no other, nor the required field, nor the client; it accepts every
\* value and sends no request; called again it keeps the last value alone.
\* So the payload of build_and_publish is made of the last value given for
\* each field, and is the same in whichever order setters of different
\* fields were called.
C21_SettersChangeOnlyTheirField ==
    /\ [](SetterChangesItsFieldOnly /\ LastValuePerField)
    /\ [][SettersAndPublish]_vars

\* A second call of the priority setter, with another value.
C21_Witness ==
    /\ AfterSetter
    /\ frame.setter = "priority"
    /\ frame.self.priority = Some("None")
    /\ builder.priority = Some("High")
    /\ builder.title = frame.self.title
    /\ DOMAIN BuilderJson(builder) = {"title", "priority"}
    /\ BuilderJson(builder).priority = TaskPriorityCode("High")

-----------------------------------------------------------------------------
(* Claims about the authorization flow, checked under SpecAuth.            *)

LastFinishAuth == frame.op = "finish_auth"

\* C1: finish_auth called with a state that differs from the CSRF token of
\* the begin_auth that made the object returns InvalidCSRFState with that
\* token as `expected` and the supplied state as `recieved`, and the call
\* sends no HTTP request.
C1_MismatchIsRejectedWithoutRequest ==
    (LastFinishAuth /\ frame.state # frame.self.csrf_state) =>
        /\ pc = "idle"
        /\ result = [kind |-> "InvalidCSRFState",
                     expected |-> frame.self.csrf_state,
                     recieved |-> frame.state]
        /\ sent = <<>>
        /\ resp = None

C1_Witness ==
    /\ LastFinishAuth
    /\ frame.state \in CsrfTokens
    /\ frame.state # frame.self.csrf_state
    /\ result.kind = "InvalidCSRFState"

\* C2: an AccessToken is returned only by a finish_auth on an object that
\* begin_auth made, whose state argument equals that object's CSRF token,
\* after exactly one form POST to the token endpoint (grant_type
\* authorization_code, client id, client secret, code, redirect_uri, scope)
\* whose response was received and deserializes into the AccessToken
\* returned; never after a failed comparison, a failed send or a failed
\* deserialization.
C2_TokenOnlyAfterMatchAndExchange ==
    /\ (LastFinishAuth /\ result.kind = "Ok") =>
        /\ \E c \in ClientIds, r \in RedirectUris, t \in CsrfTokens :
              /\ UrlParses(r)
              /\ frame.self = NewAwaitingAuthCode(c, r, t)
        /\ frame.state = frame.self.csrf_state
        /\ Len(sent) = 1
        /\ sent[1].method = "POST"
        /\ sent[1].url = "https://ticktick.com/oauth/token"
        /\ sent[1].form =
              [client_id |-> frame.self.auth_client.client_id,
               client_secret |-> frame.client_secret,
               code |-> frame.auth_code,
               grant_type |-> "authorization_code",
               scope |-> "tasks:write tasks:read",
               redirect_uri |-> frame.self.auth_client.redirect_url]
        /\ resp # None
        /\ resp.net
        /\ DecodesAsAccessToken(resp.body)
        /\ result.value.value = resp.body.obj.access_token
    /\ (LastFinishAuth /\ pc = "idle" /\ resp # None /\ ~resp.net) =>
          result.kind = "ReqwestClientError"
    /\ (LastFinishAuth /\ pc = "idle" /\ resp # None /\ resp.net
          /\ ~DecodesAsAccessToken(resp.body)) =>
          result.kind = "ReqwestClientError"

C2_Witness ==
    /\ LastFinishAuth
    /\ result.kind = "Ok"
    /\ result.value.value = "tok2"
    /\ Len(sent) = 1

\* C3: the `state` query parameter of the URL begin_auth returns is the CSRF
\* token stored in the returned object, and the URL carries the given
\* client_id and redirect_uri, response_type and the scopes tasks:read and
\* tasks:write; so finish_auth given the state read back from the URL passes
\* the CSRF check, and given any other state fails it with the URL's state
\* reported as expected.
UrlIsConsistent(a, client_id, redirect_uri) ==
    /\ a.authorization_url.endpoint = "https://ticktick.com/oauth/authorize"
    /\ a.authorization_url.query.state = a.csrf_state
    /\ a.authorization_url.query.client_id = client_id
    /\ a.authorization_url.query.redirect_uri = redirect_uri
    /\ "response_type" \in DOMAIN a.authorization_url.query
    /\ a.authorization_url.query.scope = <<"tasks:read", "tasks:write">>

C3_UrlStateIsTheCsrfToken ==
    /\ (frame.op = "begin_auth" /\ result.kind = "Ok") =>
          UrlIsConsistent(result.value, frame.client_id, frame.redirect_uri)
    /\ \A i \in 1..Len(awaiting) :
          awaiting[i].authorization_url.query.state = awaiting[i].csrf_state
    /\ (LastFinishAuth /\ frame.state = frame.self.authorization_url.query.state) =>
          /\ result.kind # "InvalidCSRFState"
          /\ Len(sent) = 1
    /\ (LastFinishAuth /\ frame.state # frame.self.authorization_url.query.state) =>
          /\ result.kind = "InvalidCSRFState"
          /\ result.expected = frame.self.authorization_url.query.state

C3_Witness ==
    /\ LastFinishAuth
    /\ frame.state = frame.self.authorization_url.query.state
    /\ frame.self.authorization_url.query.client_id = "id123"
    /\ pc = "finish_auth_await"
    /\ Len(awaiting) = 1

\* C20: an AwaitingAuthCode takes one finish_auth and no more.  The call
\* takes the object from the caller whether it then fails the CSRF check,
\* fails the exchange or succeeds, and nothing gives it back; so its token is
\* compared with one returned state and sent in at most one exchange
\* request, and a further attempt needs an object of a further begin_auth.
\* The state of one begin_auth, given to the object of another whose token
\* differs, is rejected.
FinishAuthTakesTheObject ==
    /\ (pc = "idle" /\ frame'.op = "finish_auth") =>
          /\ Len(awaiting) >= 1
          /\ Len(awaiting') = Len(awaiting) - 1
          /\ \E i \in 1..Len(awaiting) :
                /\ awaiting[i] = frame'.self
                /\ awaiting' = RemoveAt(awaiting, i)
    /\ pc = "finish_auth_await" => awaiting' = awaiting
    /\ Len(awaiting') > Len(awaiting) => frame'.op = "begin_auth"

OneExchangeAtMost ==
    LastFinishAuth =>
        /\ Len(sent) <= 1
        /\ Len(sent) = 1 => frame.state = frame.self.csrf_state
        /\ \A i \in 1..Len(awaiting) :
              (awaiting[i].csrf_state # frame.self.csrf_state
                  /\ frame.state = awaiting[i].csrf_state) =>
                  /\ result.kind = "InvalidCSRFState"
                  /\ sent = <<>>

C20_FinishAuthConsumesTheObject ==
    []OneExchangeAtMost /\ [][FinishAuthTakesTheObject]_vars

C20_Witness ==
    /\ LastFinishAuth
    /\ pc = "idle"
    /\ result.kind = "ReqwestClientError"
    /\ Len(sent) = 1
    /\ awaiting = <<>>

====
